---- MODULE Spec2Model ----
(***************************************************************************)
(* Twitter Status Bot: the generation / caching pipeline.                  *)
(*                                                                         *)
(* Spec        the inline-query supervisor of bot/inline.py: the           *)
(*             dispatcher thread running inline() and the inline_thread    *)
(*             worker threads it starts, one Event per thread.             *)
(* SpecHeader  the per-user header cache of bot/twitter.py: get_header     *)
(*             and build_header, called by the generations of one user.    *)
(* SpecLegacy  the header cache of the older twitter.py, used by bot.py.    *)
(* SpecSet     the bot's sticker set (get_sticker_set, clean_sticker_set,  *)
(*             get_sticker_id), requests handled one at a time.            *)
(* SpecSetPar  the same with the requests of different users in parallel.  *)
(* SpecBody    build_body: the layout chosen for a text.                   *)
(* SpecShorten shorten_text: a text cut down to a width.                   *)
(* SpecError   the error handlers of bot/error.py.                         *)
(* SpecFooter  build_sticker and build_footer with the clock and the       *)
(*             timezone the user has set.                                  *)
(* SpecStore   the stored stickers of one user and store_stickers.         *)
(* SpecPoll    the polls and the external calls of one generation.         *)
(* SpecLive    Spec with every thread and every join() getting on.         *)
(* SpecStale   the stored stickers an inline_thread reads and answers with. *)
(* SpecEmpty   the empty inline queries of one user.                       *)
(***************************************************************************)
EXTENDS Integers, FiniteSets, Sequences, TLC

(***************************************************************************)
(* Bounds of the model.                                                    *)
(***************************************************************************)
\* number of inline_thread workers ever started (Thread objects)
MaxTasks == 3
\* number of times the user changes the profile or the fallback picture
MaxChanges == 2
\* stickers ever added to the sticker set
MaxPublish == 2
\* words and line breaks in a text given to build_body
MaxWords == 3
\* characters in a text given to shorten_text
MaxText == 3
\* minutes the clock runs for
MaxClock == 2
\* stickers built while the clock runs
MaxMade == 2
\* stickers sent for the user whose stored stickers are followed
MaxSent == 3
\* empty inline queries answered
MaxEmpty == 2
\* stickers stored before and between the empty queries
MaxStored == 2

Users == {"u1", "u2"}
TaskIds == 1..MaxTasks
None == 0

(***************************************************************************)
(* Exception messages, as str(exc) is read in inline_thread's handler.     *)
(***************************************************************************)
TERMINATED == "Sticker creation terminated because event was set"
HYPHENATION == "Something went wrong trying to hyphenate your text."
TELEGRAM == "TelegramError"
NoExc == "none"

VARIABLES
    \* ---- Spec: bot/inline.py ----
    dpc,                  \* where the dispatcher thread is inside inline()
    dUser,                \* the user whose inline query it is handling
    inline_query_thread,  \* user_data.inline_query_thread, None or a task
    inline_query_event,   \* user_data.inline_query_event, None or an Event
    event_set,            \* Event.is_set() of the Event made for each task
    tasks,                \* the Thread objects running inline_thread
    temp_file_ids,        \* user_data.temp_file_ids (keys, one per task)
    ntasks,               \* Threads created so far
    \* ---- SpecHeader: bot/twitter.py, one user ----
    profile,              \* the user's Telegram profile: name, username, photo
    fallback_photo,       \* user_data.fallback_photo
    snapshot,             \* user_data.full_name / username / photo_file_unique_id
    header_file,          \* headers/<user_id>.png: what it was rendered from
    sticker_file_ids,     \* user_data.sticker_file_ids
    gen,                  \* the generations running get_header, and their locals
    nchanges,             \* profile and fallback changes so far
    \* ---- SpecSet, SpecSetPar: the bot's sticker set (utils.py, bot.py) ----
    set_exists,           \* the sticker set <prefix>_by_<bot> exists
    stickers,             \* its listing, in Telegram's order
    pub,                  \* the requests publishing a sticker, and their locals
    npublished,           \* stickers added so far (they are numbered)
    removal,              \* stickers delete_sticker_from_set was called for
    faults,               \* a call of the Bot API or build_sticker has failed
    \* ---- SpecBody: build_body of bot/twitter.py ----
    body_text,            \* the text build_body is called with
    fill_exc,             \* what textwrap2.fill raises for it, if anything
    body,                 \* what build_body gave: the layout, or the exception
    \* ---- SpecShorten: shorten_text of bot/twitter.py ----
    sh_pc,                \* the line shorten_text is at
    sh_text,              \* text
    sh_max,               \* max_width
    sh_i,                 \* i
    sh_short,             \* short_text
    sh_first,             \* the text of the call before, when this one is
                          \* given that call's result
    \* ---- SpecError: bot/error.py ----
    er_pc,                \* the handler, or the line of error, that is next
    er_update,            \* the update the error came up for
    er_exc,               \* context.error
    er_sent,              \* what the handlers have sent
    er_log,               \* the records of logger.error
    er_raised,            \* the handler error has raised itself
    \* ---- SpecFooter: bot/twitter.py, bot/settimezone.py ----
    now,                  \* the wall clock, in minutes
    tzinfo,               \* user_data.tzinfo
    tz_conv,              \* the state of the set_timezone conversation
    tz_chosen,            \* handle_timezone has set tzinfo
    made,                 \* the stickers built, with what they were built from
    \* ---- SpecStore: bot/commands.py, bot/inline.py ----
    store_stickers,       \* user_data.store_stickers
    sm_pc,                \* the line sticker_message is at
    sm_sticker,           \* the sticker it has sent
    nsent,                \* stickers sent for the user so far
    st_last,              \* what the last handler did
    st_open,              \* the keys offered in an answer and not chosen yet
    \* ---- SpecPoll: one inline_thread ----
    pl_pc,                \* where the thread is
    pl_set,               \* its Event is set
    pl_issued,            \* the calls it issued while its Event was set
    pl_photo,             \* the user has a picture to fetch
    \* ---- SpecStale: one inline_thread and the stored stickers ----
    aq_pc,                \* the line the thread is at
    aq_file_ids,          \* its local file_ids (line 45)
    aq_cleared,           \* what get_header cleared during this request
    aq_results,           \* the stored stickers in the answer it delivered
    \* ---- SpecEmpty: empty inline queries ----
    em_stored,            \* list(user_data.sticker_file_ids.values())
    em_answer,            \* the last answer to an empty query
    em_n                  \* empty queries answered so far

supVars == <<dpc, dUser, inline_query_thread, inline_query_event, event_set,
             tasks, temp_file_ids, ntasks>>
hdrVars == <<profile, fallback_photo, snapshot, header_file, sticker_file_ids,
             gen, nchanges>>
setVars == <<set_exists, stickers, pub, npublished, removal, faults>>
bodyVars == <<body_text, fill_exc, body>>
shVars == <<sh_pc, sh_text, sh_max, sh_i, sh_short, sh_first>>
errVars == <<er_pc, er_update, er_exc, er_sent, er_log, er_raised>>
ftVars == <<now, tzinfo, tz_conv, tz_chosen, made>>
stVars == <<store_stickers, sm_pc, sm_sticker, nsent, st_last, st_open>>
plVars == <<pl_pc, pl_set, pl_issued, pl_photo>>
aqVars == <<aq_pc, aq_file_ids, aq_cleared, aq_results>>
emVars == <<em_stored, em_answer, em_n>>
moreVars == <<aqVars, emVars>>
extraVars == <<shVars, errVars, ftVars, stVars, plVars, moreVars>>
restVars == <<setVars, bodyVars, extraVars>>
vars == <<supVars, hdrVars, restVars>>

(***************************************************************************)
(* A Thread running inline_thread.  pc is the line it is about to run;     *)
(* the other fields record what it has done (history of its effects).      *)
(***************************************************************************)
Unborn ==
    [owner |-> "nobody", pc |-> "unborn", exc |-> NoExc,
     answers |-> 0, errors |-> 0, effects |-> 0,
     abortedAt |-> -1, early |-> FALSE, lateAnswer |-> FALSE]

\* Thread.is_alive(): started and its target has not returned
is_alive(t) == t # None /\ tasks[t].pc \notin {"unborn", "done"}

\* inline.py _check_event(event): raises when the Event is set
check_event_never(t) == FALSE
check_event(t) == event_set[t]

\* inline_thread line 75: the handler keeps silent about this exception
silent_always(msg) == TRUE
silent_never(msg) == FALSE
silent(msg) == msg = TERMINATED

\* line 94: the Event inline() sets, the one stored for this user
event_of_latest(u) == ntasks
event_of(u) == inline_query_event[u]

\* line 95: thread.join() returns once the user's old thread has ended
join_returns_never(u) == FALSE
join_returns_at_once(u) == TRUE
join_returns(u) == ~is_alive(inline_query_thread[u])

\* lines 73-76: where inline_thread goes after inline_query.answer
after_answer_always_except(ok) == "except"
after_answer(ok) == IF ok THEN "done" ELSE "except"

\* the tasks a step of thread t leaves alone
Touch(t, r) == tasks' = [tasks EXCEPT ![t] = r]

(***************************************************************************)
(* inline(), lines 97-105: a new Event and a new Thread, started.          *)
(***************************************************************************)
start_thread(u) ==
    /\ ntasks < MaxTasks
    /\ LET t == ntasks + 1 IN
        /\ ntasks' = t
        /\ tasks' = [tasks EXCEPT ![t] = [Unborn EXCEPT !.owner = u, !.pc = "l45"]]
        /\ inline_query_event' = [inline_query_event EXCEPT ![u] = t]
        /\ inline_query_thread' = [inline_query_thread EXCEPT ![u] = t]

(***************************************************************************)
(* inline() with a non-empty query, lines 87-95 (and 97-105 when there is  *)
(* no alive thread to join).                                               *)
(***************************************************************************)
inline(u) ==
    /\ dpc = "idle"
    /\ ntasks < MaxTasks
    /\ LET thread == inline_query_thread[u] IN
        IF is_alive(thread)
        THEN /\ event_set' = [event_set EXCEPT ![event_of(u)] = TRUE]
             /\ tasks' = [tasks EXCEPT ![event_of(u)].early =
                              tasks[event_of(u)].pc \in {"l45", "l53"}]
             /\ dpc' = "join"
             /\ dUser' = u
             /\ UNCHANGED <<inline_query_thread, inline_query_event, ntasks>>
        ELSE /\ start_thread(u)
             /\ UNCHANGED <<dpc, dUser, event_set>>
    /\ UNCHANGED <<temp_file_ids, hdrVars, restVars>>

\* inline() resumes after thread.join() and runs lines 97-105
inline_join(u) ==
    /\ dpc = "join"
    /\ dUser = u
    /\ join_returns(u)
    /\ start_thread(u)
    /\ dpc' = "idle"
    /\ UNCHANGED <<dUser, event_set, temp_file_ids, hdrVars, restVars>>

(***************************************************************************)
(* inline_thread, lines 39-76, one action per line it can be stopped at.   *)
(***************************************************************************)
ThreadFrame == UNCHANGED <<dpc, dUser, inline_query_thread, inline_query_event,
                           event_set, ntasks, hdrVars, restVars>>

\* the superseding inline() of this user is still inside join()
Superseded(t) == dpc = "join" /\ dUser = tasks[t].owner

\* lines 40-51: read the stored file ids
thread_l45(t) ==
    /\ tasks[t].pc = "l45"
    /\ Touch(t, [tasks[t] EXCEPT !.pc = "l53"])
    /\ UNCHANGED temp_file_ids
    /\ ThreadFrame

\* lines 53, 59, 71: _check_event(event)
thread_check(t, at, next) ==
    /\ tasks[t].pc = at
    /\ IF check_event(t)
       THEN Touch(t, [tasks[t] EXCEPT !.pc = "except", !.exc = TERMINATED,
                                      !.abortedAt = tasks[t].effects])
       ELSE Touch(t, [tasks[t] EXCEPT !.pc = next])
    /\ UNCHANGED temp_file_ids
    /\ ThreadFrame

\* lines 55-57: get_sticker_photo_stream(query, user, context); the Event is
\* not among its arguments, so nothing below it polls this task's Event
thread_l55(t) ==
    /\ tasks[t].pc = "l55"
    /\ \E out \in {"ok", HYPHENATION, TELEGRAM} :
        IF out = "ok"
        THEN Touch(t, [tasks[t] EXCEPT !.pc = "l59", !.effects = @ + 1])
        ELSE Touch(t, [tasks[t] EXCEPT !.pc = "except", !.exc = out,
                                       !.effects = @ + 1])
    /\ UNCHANGED temp_file_ids
    /\ ThreadFrame

\* lines 61-69: send_sticker, then the write of temp_file_ids[key]
thread_l61(t) ==
    /\ tasks[t].pc = "l61"
    /\ \E ok \in BOOLEAN :
        IF ok
        THEN /\ Touch(t, [tasks[t] EXCEPT !.pc = "l71", !.effects = @ + 2])
             /\ temp_file_ids' = [temp_file_ids EXCEPT
                                    ![tasks[t].owner] = @ \cup {t}]
        ELSE /\ Touch(t, [tasks[t] EXCEPT !.pc = "except", !.exc = TELEGRAM,
                                          !.effects = @ + 1])
             /\ UNCHANGED temp_file_ids
    /\ ThreadFrame

\* line 73: inline_query.answer
thread_l73(t) ==
    /\ tasks[t].pc = "l73"
    /\ \E ok \in BOOLEAN :
        Touch(t, [tasks[t] EXCEPT
                    !.pc = after_answer(ok),
                    !.exc = IF after_answer(ok) = "except" THEN TELEGRAM ELSE @,
                    !.answers = IF ok THEN @ + 1 ELSE @,
                    !.lateAnswer = ok /\ Superseded(t),
                    !.effects = @ + 1])
    /\ UNCHANGED temp_file_ids
    /\ ThreadFrame

\* lines 74-76: except Exception; dispatch_error unless it is the termination
thread_except(t) ==
    /\ tasks[t].pc = "except"
    /\ IF silent(tasks[t].exc)
       THEN Touch(t, [tasks[t] EXCEPT !.pc = "done"])
       ELSE Touch(t, [tasks[t] EXCEPT !.pc = "done", !.errors = @ + 1,
                                      !.effects = @ + 1])
    /\ UNCHANGED temp_file_ids
    /\ ThreadFrame

inline_thread(t) ==
    \/ thread_l45(t)
    \/ thread_check(t, "l53", "l55")
    \/ thread_l55(t)
    \/ thread_check(t, "l59", "l61")
    \/ thread_l61(t)
    \/ thread_check(t, "l71", "l73")
    \/ thread_l73(t)
    \/ thread_except(t)


(***************************************************************************)
(* The header cache: get_header and build_header of bot/twitter.py.        *)
(*                                                                         *)
(* Two generations of one user can be inside get_header at a time: the     *)
(* user's inline_thread ("inline") and sticker_message answering a text    *)
(* message on the dispatcher ("message").                                  *)
(***************************************************************************)
Callers == {"inline", "message"}
Names == {"A", "B"}
Usernames == {"none", "a"}
Photos == {"none", "p1"}
Fallbacks == {"none", "f1"}

\* headers/<id>.png missing, or present but not an image
Absent == [name |-> "absent", handle |-> "absent", pic |-> "absent"]
Corrupt == [name |-> "corrupt", handle |-> "corrupt", pic |-> "corrupt"]

NoSnapshot == [full_name |-> "none", username |-> "none", photo |-> "none"]

\* a generation: the line of get_header / build_header it is about to run,
\* update.effective_user, the photo found (the profile photo or else the
\* fallback photo: file_id and file_unique_id go together), drop_stored_stickers
\* what build_header has drawn so far, and how get_header returned (the stored
\* file or a new header) with the image it returned
Idle == [pc |-> "idle", user |-> [full_name |-> "none", username |-> "none"],
         photo |-> "none", drop |-> FALSE,
         hname |-> "none", hhandle |-> "none", ret |-> "none", img |-> Absent]

\* a or b of Python, for identifiers where None is "none"
Or(a, b) == IF a # "none" THEN a ELSE b

\* what build_header draws for a stored profile: the name, "@username or
\* first name", and the picture (the bot's logo when there is none)
Rendered(name, handle, picture) ==
    [name |-> name, handle |-> handle, pic |-> Or(picture, "logo")]
RenderOf(snap) ==
    Rendered(snap.full_name, Or(snap.username, snap.full_name), snap.photo)

\* Image.open(headers/<id>.png) succeeds
load_never(file) == FALSE
Loadable(file) == file \notin {Absent, Corrupt}

\* the event argument of get_header: get_sticker_photo_stream / build_sticker
\* are called without one (inline.py:55-57, commands.py:25, utils.py:110)
caller_event(c) == None

\* twitter.py _check_event(event): raises when an Event was passed and is set
header_check(c) == caller_event(c) # None /\ event_set[caller_event(c)]

\* the profile the call compares and stores: name, username and the
\* fingerprint photo_file_unique_id or fallback_unique_id
Observed(c) ==
    [full_name |-> gen[c].user.full_name, username |-> gen[c].user.username,
     photo |-> gen[c].photo]

\* lines 241-245: the stored snapshot equals the observed profile
matches_always(c) == TRUE
matches_name_only(c) == snapshot.full_name = gen[c].user.full_name
matches(c) ==
    /\ snapshot.full_name = gen[c].user.full_name
    /\ snapshot.username = gen[c].user.username
    /\ snapshot.photo = gen[c].photo

\* line 273: the stored stickers are dropped by this call
drops_always(c) == TRUE
drops(c) == gen[c].drop

\* UserData.update_user_info(user, photo_file_unique_id=...)
update_user_info(c) ==
    snapshot' = Observed(c)

Step(c, r) == gen' = [gen EXCEPT ![c] = r]
\* an exception leaves get_header: the generation is over
Raise(c) == Step(c, Idle)
HdrFrame == UNCHANGED <<supVars, restVars>>

\* a generation starts: update.effective_user is the profile of that moment.
\* Handlers run one at a time on the dispatcher: inline() starts the thread
\* only when no other handler (sticker_message) is running.
hdr_begin(c) ==
    /\ gen[c].pc = "idle"
    /\ gen["message"].pc = "idle"
    /\ Step(c, [Idle EXCEPT !.pc = "l226",
                            !.user = [full_name |-> profile.name,
                                      username |-> profile.username]])
    /\ UNCHANGED <<profile, fallback_photo, snapshot, header_file,
                   sticker_file_ids, nchanges>>
    /\ HdrFrame

\* lines 225-238: get_user_profile_photos, and the fallback photo
hdr_l226(c) ==
    /\ gen[c].pc = "l226"
    /\ IF header_check(c)
       THEN Raise(c)
       ELSE \E ok \in BOOLEAN :
              IF ok
              THEN Step(c, [gen[c] EXCEPT
                              !.pc = "l241",
                              !.photo = Or(profile.photo, fallback_photo)])
              ELSE Raise(c)
    /\ UNCHANGED <<profile, fallback_photo, snapshot, header_file,
                   sticker_file_ids, nchanges>>
    /\ HdrFrame

\* lines 257-270, which touch nothing shared: get_file, download and open of
\* the picture, when there is one; any of the three can raise
fetch_picture(c, ok) ==
    IF gen[c].photo # "none" /\ ~ok
    THEN Raise(c)
    ELSE Step(c, [gen[c] EXCEPT !.pc = "l272", !.drop = ~matches(c)])

\* lines 240-270 with lines 272-274 run before the picture is fetched
hdr_l241_store_first(c) ==
    /\ gen[c].pc = "l241"
    /\ update_user_info(c)
    /\ sticker_file_ids' = {}
    /\ Raise(c)
    /\ UNCHANGED <<profile, fallback_photo, header_file, nchanges>>
    /\ HdrFrame

\* lines 240-270: compare; on a match return the stored file if it opens;
\* else remember whether to drop the stored stickers and fetch the picture
hdr_l241(c) ==
    /\ gen[c].pc = "l241"
    /\ IF header_check(c)
       THEN Raise(c)
       ELSE IF matches(c) /\ Loadable(header_file)
       THEN Step(c, [gen[c] EXCEPT !.pc = "returned", !.ret = "hit",
                                   !.img = header_file])
       ELSE \E ok \in BOOLEAN : fetch_picture(c, ok)
    /\ UNCHANGED <<profile, fallback_photo, snapshot, header_file,
                   sticker_file_ids, nchanges>>
    /\ HdrFrame

\* lines 272-274: store the observed profile, drop the stored stickers; then
\* build_header lines 145-170, which touch nothing shared: the template and
\* the picture (crop, mask, thumbnail, composite), where decoding the
\* downloaded picture can raise
hdr_l272(c) ==
    /\ gen[c].pc = "l272"
    /\ update_user_info(c)
    /\ sticker_file_ids' = IF drops(c) THEN {} ELSE sticker_file_ids
    /\ \E ok \in BOOLEAN :
        IF ok /\ ~header_check(c)
        THEN Step(c, [gen[c] EXCEPT !.pc = "l176"])
        ELSE Raise(c)
    /\ UNCHANGED <<profile, fallback_photo, header_file, nchanges>>
    /\ HdrFrame

\* build_header lines 172-177: draw user_data.full_name
hdr_l176(c) ==
    /\ gen[c].pc = "l176"
    /\ IF header_check(c)
       THEN Raise(c)
       ELSE Step(c, [gen[c] EXCEPT !.pc = "l184", !.hname = snapshot.full_name])
    /\ UNCHANGED <<profile, fallback_photo, snapshot, header_file,
                   sticker_file_ids, nchanges>>
    /\ HdrFrame

\* build_header lines 179-193: draw "@" + (user_data.username or first_name)
hdr_l184(c) ==
    /\ gen[c].pc = "l184"
    /\ IF header_check(c)
       THEN Raise(c)
       ELSE Step(c, [gen[c] EXCEPT
                       !.pc = "l197",
                       !.hhandle = Or(snapshot.username, snapshot.full_name)])
    /\ UNCHANGED <<profile, fallback_photo, snapshot, header_file,
                   sticker_file_ids, nchanges>>
    /\ HdrFrame

\* build_header lines 195-198: save the header; a failed save leaves the old
\* file or a truncated one
hdr_l197(c) ==
    /\ gen[c].pc = "l197"
    /\ IF header_check(c)
       THEN Raise(c) /\ UNCHANGED header_file
       ELSE \/ /\ header_file' =
                    Rendered(gen[c].hname, gen[c].hhandle, gen[c].photo)
               /\ Step(c, [gen[c] EXCEPT !.pc = "returned", !.ret = "built",
                                           !.img = header_file'])
            \/ /\ header_file' \in {header_file, Corrupt}
               /\ Raise(c)
    /\ UNCHANGED <<profile, fallback_photo, snapshot, sticker_file_ids, nchanges>>
    /\ HdrFrame

\* the generation went on after get_header and its sticker is stored
\* (sticker_message lines 26-29; handle_chosen_inline_result lines 128-129,
\* a handler on the dispatcher), or it is not.  A stored sticker is named by
\* the generation it came from.
hdr_store(c) ==
    /\ gen[c].pc = "returned"
    /\ c = "inline" => gen["message"].pc = "idle"
    /\ \E store \in BOOLEAN :
        sticker_file_ids' = IF store THEN sticker_file_ids \cup {c}
                                     ELSE sticker_file_ids
    /\ Step(c, Idle)
    /\ UNCHANGED <<profile, fallback_photo, snapshot, header_file, nchanges>>
    /\ HdrFrame

\* the user changes one of name, username and profile photo
change_profile ==
    /\ nchanges < MaxChanges
    /\ nchanges' = nchanges + 1
    /\ \/ \E n \in Names \ {profile.name} : profile' = [profile EXCEPT !.name = n]
       \/ \E h \in Usernames \ {profile.username} :
            profile' = [profile EXCEPT !.username = h]
       \/ \E p \in Photos \ {profile.photo} : profile' = [profile EXCEPT !.photo = p]
    /\ UNCHANGED <<fallback_photo, snapshot, header_file, sticker_file_ids, gen>>
    /\ HdrFrame

\* update_fallback_photo: /set_fallback_picture, /delete_fallback_picture
update_fallback_photo ==
    /\ nchanges < MaxChanges
    /\ nchanges' = nchanges + 1
    /\ gen["message"].pc = "idle"
    /\ \E f \in Fallbacks \ {fallback_photo} : fallback_photo' = f
    /\ UNCHANGED <<profile, snapshot, header_file, sticker_file_ids, gen>>
    /\ HdrFrame

\* the stored header becomes unreadable (the file is removed)
lose_header ==
    /\ Loadable(header_file)
    /\ header_file' = Absent
    /\ UNCHANGED <<profile, fallback_photo, snapshot, sticker_file_ids, gen,
                   nchanges>>
    /\ HdrFrame

get_header(c) ==
    \/ hdr_l226(c)
    \/ hdr_l241(c)
    \/ hdr_l272(c)

build_header(c) ==
    \/ hdr_l176(c)
    \/ hdr_l184(c)
    \/ hdr_l197(c)

(***************************************************************************)
(* The sticker set of the bot: get_sticker_set, clean_sticker_set and      *)
(* get_sticker_id of bot/utils.py (the same functions are in bot.py).      *)
(* There is one set for the whole bot, named <prefix>_by_<bot username>;   *)
(* every request, of whichever user, publishes to it.  A request is the    *)
(* cycle of bot.py message() / inline(): get_sticker_id, the reply, then   *)
(* clean_sticker_set.  Each call of the Bot API is one step.               *)
(***************************************************************************)
Publishers == Users
SetFrame == UNCHANGED <<supVars, hdrVars, bodyVars, extraVars>>
\* the logo the set is created with; published stickers are 1, 2, ...
Seed == 0
NoSticker == -1

\* what a call of the Bot API answers
INVALID == "Stickerset_invalid"
NOT_MODIFIED == "Stickerset_not_modified"
TIMEOUT == "Timed out"
BUILD_FAILED == "build_sticker failed"

\* a request: the call it is about to make, which get_sticker_set /
\* clean_sticker_set call it is in (stage), the stickers clean_sticker_set
\* still has to delete, the sticker its add_sticker_to_set added, the id
\* get_sticker_id returned, and the answer of its latest call
IdlePub == [pc |-> "idle", stage |-> "none", todo |-> <<>>,
            mine |-> NoSticker, ret |-> NoSticker, exc |-> "none"]

Move(p, r) == pub' = [pub EXCEPT ![p] = r]
\* an exception leaves the request's handler
Fail(p, exc) == /\ Move(p, [IdlePub EXCEPT !.exc = exc])
                /\ faults' = TRUE

Range(seq) == {seq[i] : i \in 1..Len(seq)}
Without(seq, x) == SelectSeq(seq, LAMBDA y : y # x)

\* utils.py:53  "invalid" in str(exc), for a BadRequest
is_any_error(r) == r # "ok"
is_invalid(r) == r = INVALID

\* utils.py:82  "Stickerset_not_modified" in str(exc), for a BadRequest
tolerated_never(r) == FALSE
tolerated(r) == r = NOT_MODIFIED

\* utils.py:78  sticker_set.stickers[1:]
keep_last(l) == SubSeq(l, 1, Len(l) - 1)
skip_second(l) == Tail(Tail(l))
to_delete(l) == Tail(l)

\* utils.py:118  sticker_set.stickers[-1]
newest(l) == l[Len(l)]

\* a request starts (bot.py:180-190, 195-208): handlers run one at a time on
\* the dispatcher
publish_begin(p) ==
    /\ \A q \in Publishers : pub[q].pc = "idle"
    /\ npublished < MaxPublish
    /\ Move(p, [IdlePub EXCEPT !.pc = "lookup", !.stage = "clean"])
    /\ UNCHANGED <<set_exists, stickers, npublished, removal, faults>>
    /\ SetFrame

\* clean_sticker_set is through (utils.py:76-85): get_sticker_id goes on to
\* build_sticker, the handler returns
after_clean(p) ==
    IF pub[p].stage = "clean"
    THEN [pub[p] EXCEPT !.pc = "build", !.todo = <<>>, !.exc = "ok"]
    ELSE IdlePub

\* get_sticker_set returned the listing l to its caller
deliver(p, l) ==
    CASE pub[p].stage \in {"clean", "cleanup"} ->
            IF Len(l) > 1 /\ to_delete(l) # <<>>
            THEN [pub[p] EXCEPT !.pc = "delete", !.todo = to_delete(l), !.exc = "ok"]
            ELSE after_clean(p)
      [] pub[p].stage = "check" -> [pub[p] EXCEPT !.pc = "add", !.exc = "ok"]
      [] pub[p].stage = "last" ->
            [pub[p] EXCEPT !.pc = "reply", !.ret = newest(l), !.exc = "ok"]

\* utils.py:50-51  bot.get_sticker_set(name)
LookupResults == IF set_exists THEN {"ok", TIMEOUT} ELSE {INVALID, TIMEOUT}
get_sticker_set_l51(p) ==
    /\ pub[p].pc = "lookup"
    /\ \E r \in LookupResults :
        IF r = "ok"
        THEN Move(p, deliver(p, stickers)) /\ UNCHANGED faults
        ELSE IF is_invalid(r)
        THEN Move(p, [pub[p] EXCEPT !.pc = "create", !.exc = r]) /\ UNCHANGED faults
        ELSE Fail(p, r)
    /\ UNCHANGED <<set_exists, stickers, npublished, removal>>
    /\ SetFrame

\* utils.py:54-58  create_new_sticker_set with the logo; it fails when the
\* set has been created meanwhile
get_sticker_set_l55(p) ==
    /\ pub[p].pc = "create"
    /\ \E ok \in BOOLEAN :
        IF ok /\ ~set_exists
        THEN /\ set_exists' = TRUE
             /\ stickers' = <<Seed>>
             /\ Move(p, [pub[p] EXCEPT !.pc = "lookup2", !.exc = "ok"])
             /\ UNCHANGED faults
        ELSE /\ Fail(p, TIMEOUT)
             /\ UNCHANGED <<set_exists, stickers>>
    /\ UNCHANGED <<npublished, removal>>
    /\ SetFrame

\* utils.py:59  return bot.get_sticker_set(name)
get_sticker_set_l59(p) ==
    /\ pub[p].pc = "lookup2"
    /\ \E ok \in BOOLEAN :
        IF ok
        THEN Move(p, deliver(p, stickers)) /\ UNCHANGED faults
        ELSE Fail(p, TIMEOUT)
    /\ UNCHANGED <<set_exists, stickers, npublished, removal>>
    /\ SetFrame

get_sticker_set(p) ==
    \/ get_sticker_set_l51(p)
    \/ get_sticker_set_l55(p)
    \/ get_sticker_set_l59(p)

\* utils.py:78-85  one round of the loop: delete_sticker_from_set
DeleteResults(s) ==
    IF s \in Range(stickers) THEN {"ok", TIMEOUT} ELSE {NOT_MODIFIED, TIMEOUT}
clean_sticker_set(p) ==
    /\ pub[p].pc = "delete"
    /\ LET s == Head(pub[p].todo) IN
       \E r \in DeleteResults(s) :
        IF r = "ok" \/ tolerated(r)
        THEN /\ stickers' = Without(stickers, s)
             /\ removal' = removal \cup {s}
             /\ Move(p, IF Len(pub[p].todo) > 1
                        THEN [pub[p] EXCEPT !.todo = Tail(pub[p].todo), !.exc = r]
                        ELSE [after_clean(p) EXCEPT !.exc = r])
             /\ UNCHANGED faults
        ELSE /\ Fail(p, r)
             /\ removal' = removal \cup {s}
             /\ UNCHANGED stickers
    /\ UNCHANGED <<set_exists, npublished>>
    /\ SetFrame

\* utils.py:109-112  build_sticker and its save to a stream
get_sticker_id_l110(p) ==
    /\ pub[p].pc = "build"
    /\ \E ok \in BOOLEAN :
        IF ok
        THEN /\ Move(p, [pub[p] EXCEPT !.pc = "lookup", !.stage = "check"])
             /\ UNCHANGED faults
        ELSE Fail(p, BUILD_FAILED)
    /\ UNCHANGED <<set_exists, stickers, npublished, removal>>
    /\ SetFrame

\* utils.py:116  add_sticker_to_set: the new sticker goes to the end of the set
get_sticker_id_l116(p) ==
    /\ pub[p].pc = "add"
    /\ \E ok \in BOOLEAN :
        IF ok
        THEN /\ npublished' = npublished + 1
             /\ stickers' = Append(stickers, npublished + 1)
             /\ Move(p, [pub[p] EXCEPT !.pc = "lookup", !.stage = "last",
                                       !.mine = npublished + 1])
             /\ UNCHANGED faults
        ELSE /\ Fail(p, TIMEOUT)
             /\ UNCHANGED <<stickers, npublished>>
    /\ UNCHANGED <<set_exists, removal>>
    /\ SetFrame

\* bot.py:191-192, 210-214: the handler answers with the id get_sticker_id
\* returned and calls clean_sticker_set
reply(p) ==
    /\ pub[p].pc = "reply"
    /\ Move(p, [pub[p] EXCEPT !.pc = "lookup", !.stage = "cleanup"])
    /\ UNCHANGED <<set_exists, stickers, npublished, removal, faults>>
    /\ SetFrame

get_sticker_id(p) ==
    \/ get_sticker_id_l110(p)
    \/ get_sticker_id_l116(p)

\* the sticker a cleanup is about to delete is removed by someone else (the
\* set is an ordinary set of the admin's account)
removed_elsewhere ==
    /\ \E p \in Publishers :
        /\ pub[p].pc = "delete"
        /\ Head(pub[p].todo) \in Range(stickers)
        /\ stickers' = Without(stickers, Head(pub[p].todo))
    /\ UNCHANGED <<set_exists, pub, npublished, removal, faults>>
    /\ SetFrame

\* a generation task publishes: the tasks of different users run in parallel
\* (one Thread per user, inline.py:97-105)
publish_begin_task(p) ==
    /\ pub[p].pc = "idle"
    /\ npublished + Cardinality({q \in Publishers : /\ pub[q].pc # "idle"
                                                    /\ pub[q].mine = NoSticker})
            < MaxPublish
    /\ Move(p, [IdlePub EXCEPT !.pc = "lookup", !.stage = "clean"])
    /\ UNCHANGED <<set_exists, stickers, npublished, removal, faults>>
    /\ SetFrame

SetInit ==
    /\ set_exists = FALSE
    /\ stickers = <<>>
    /\ pub = [p \in Publishers |-> IdlePub]
    /\ npublished = 0
    /\ removal = {}
    /\ faults = FALSE

(***************************************************************************)
(* build_body of bot/twitter.py: the layout of the text.  A text is a      *)
(* sequence of words, given by their lengths in characters, and line       *)
(* breaks; neighbouring words are separated by one space.  A character is  *)
(* GlyphBig pixels wide in BIG_TEXT_FONT and GlyphSmall in SMALL_TEXT_FONT.*)
(***************************************************************************)
NL == 0
Words == {4, 13}
Tokens == Words \cup {NL}
Texts == UNION {[1..n -> Tokens] : n \in 1..MaxWords}

max_chars_per_line == 26
max_pixels_per_line == 450
GlyphBig == 50
GlyphSmall == 25

NoBody == [layout |-> "none", lines |-> <<>>, exc |-> "none"]

\* "\n" in text
has_newline(text) == \E i \in 1..Len(text) : text[i] = NL

\* text.split("\n"): the paragraphs, each a sequence of words
RECURSIVE split(_)
split(text) ==
    IF ~has_newline(text)
    THEN <<text>>
    ELSE LET i == CHOOSE k \in 1..Len(text) :
                    text[k] = NL /\ \A j \in 1..(k - 1) : text[j] # NL
         IN <<SubSeq(text, 1, i - 1)>> \o split(SubSeq(text, i + 1, Len(text)))

\* len of a paragraph: its words and the spaces between them
RECURSIVE chars(_)
chars(words) ==
    IF words = <<>> THEN 0
    ELSE IF Len(words) = 1 THEN words[1]
    ELSE words[1] + 1 + chars(Tail(words))

\* font.getsize(text)[0]
getsize(glyph, words) == glyph * chars(words)

\* textwrap: words go on the current line while it stays within width
RECURSIVE wrap(_, _, _)
wrap(words, width, cur) ==
    IF words = <<>>
    THEN (IF cur = 0 THEN <<>> ELSE <<cur>>)
    ELSE IF cur = 0
    THEN wrap(Tail(words), width, words[1])
    ELSE IF cur + 1 + words[1] <= width
    THEN wrap(Tail(words), width, cur + 1 + words[1])
    ELSE <<cur>> \o wrap(words, width, 0)

\* fill(text, width): the lines of "\n".join(wrap(text)), by their lengths;
\* the empty string is one empty line
fill(words, width) ==
    IF wrap(words, width, 0) = <<>> THEN <<0>> ELSE wrap(words, width, 0)

RECURSIVE join(_)
join(paragraphs) ==
    IF paragraphs = <<>> THEN <<>>
    ELSE fill(paragraphs[1], max_chars_per_line) \o join(Tail(paragraphs))

\* lines 323-324, 334-335: except Exception as exc: raise HyphenationError
same_error(exc) == exc
wrapped_error(exc) == HYPHENATION

\* lines 328, 330: width > max_pixels_per_line
reaches(width) == width >= max_pixels_per_line
exceeds(width) == width > max_pixels_per_line

multiline_text(text) ==
    IF fill_exc # "ok"
    THEN [NoBody EXCEPT !.exc = wrapped_error(fill_exc)]
    ELSE [layout |-> "multi", lines |-> join(split(text)), exc |-> "none"]

single_line_text(text, font) ==
    [layout |-> font, lines |-> <<chars(text)>>, exc |-> "none"]

\* lines 316-343
build_body(text) ==
    IF has_newline(text)
    THEN multiline_text(text)
    ELSE IF exceeds(getsize(GlyphBig, text))
    THEN IF exceeds(getsize(GlyphSmall, text))
         THEN multiline_text(text)
         ELSE single_line_text(text, "small")
    ELSE single_line_text(text, "big")

\* build_sticker line 357: body = build_body(text, event=event)
build_sticker_l357 ==
    /\ body = NoBody
    /\ body' = build_body(body_text)
    /\ UNCHANGED <<body_text, fill_exc>>
    /\ UNCHANGED <<supVars, hdrVars, setVars, extraVars>>

\* the next text
next_text ==
    /\ body # NoBody
    /\ body' = NoBody
    /\ body_text' \in Texts
    /\ fill_exc' \in {"ok", "ValueError"}
    /\ UNCHANGED <<supVars, hdrVars, setVars, extraVars>>

(***************************************************************************)
(* shorten_text of bot/twitter.py.  A text is a sequence of characters;    *)
(* font.font.getsize adds up the widths of the characters.                 *)
(***************************************************************************)
Chars == {"a", "W", "."}
ShortTexts == UNION {[1..n -> Chars] : n \in 0..MaxText}
Budgets == {2, 3, 6}
ELLIPSIS == <<".", ".", ".">>
NoText == <<"-">>

glyph_width(ch) == CASE ch = "a" -> 2 [] ch = "W" -> 4 [] OTHER -> 1

\* font.font.getsize(text)[0][0]
RECURSIVE text_width(_)
text_width(text) ==
    IF text = <<>> THEN 0 ELSE glyph_width(text[1]) + text_width(Tail(text))

\* text[:-i], for i >= 1
drop_last(text, i) == SubSeq(text, 1, Len(text) - i)

\* line 93: width > max_width
not_narrower(width, max_width) == width >= max_width
too_wide(width, max_width) == width > max_width

\* line 92: short_text = text
cut_once(text) == drop_last(text, 1) \o ELLIPSIS
untouched(text) == text

ShFrame == UNCHANGED <<supVars, hdrVars, setVars, bodyVars, errVars,
                       ftVars, stVars, plVars, moreVars>>

\* lines 90-92: shorten_text is called
shorten_text_l90 ==
    /\ sh_pc = "idle"
    /\ \/ /\ sh_text' \in ShortTexts
          /\ sh_max' \in Budgets
          /\ sh_first' = NoText
       \/ /\ sh_first = NoText
          /\ sh_text' = sh_short
          /\ sh_first' = sh_text
          /\ UNCHANGED sh_max
    /\ sh_i' = 0
    /\ sh_short' = untouched(sh_text')
    /\ sh_pc' = "while"
    /\ ShFrame

\* lines 93-96: one test of the loop and one round of it.  text[:-i] is
\* empty for every i >= len(text), so i is counted up to len(text) only
shorten_text_l93 ==
    /\ sh_pc = "while"
    /\ IF too_wide(text_width(sh_short), sh_max)
       THEN LET i == IF sh_i < Len(sh_text) THEN sh_i + 1 ELSE sh_i IN
            /\ sh_i' = i
            /\ sh_short' = drop_last(sh_text, i) \o ELLIPSIS
            /\ UNCHANGED sh_pc
       ELSE /\ sh_pc' = "return"
            /\ UNCHANGED <<sh_i, sh_short>>
    /\ UNCHANGED <<sh_text, sh_max, sh_first>>
    /\ ShFrame

\* line 97: return short_text
shorten_text_l97 ==
    /\ sh_pc = "return"
    /\ sh_pc' = "idle"
    /\ UNCHANGED <<sh_text, sh_max, sh_i, sh_short, sh_first>>
    /\ ShFrame

shorten_text ==
    \/ shorten_text_l90
    \/ shorten_text_l93
    \/ shorten_text_l97

ShInit ==
    /\ sh_pc = "idle"
    /\ sh_text = <<>>
    /\ sh_max = 6
    /\ sh_i = 0
    /\ sh_short = <<>>
    /\ sh_first = NoText

(***************************************************************************)
(* The error handlers of bot/error.py.  The application hands every error  *)
(* to hyphenation_error and then to error, the order they are registered   *)
(* in (setup.py lines 70-71).  er_sent is what the handlers send, er_log   *)
(* what they log at error level.                                           *)
(***************************************************************************)
FORBIDDEN == "Forbidden"
TOO_OLD == "BadRequest: Query is too old"
BAD_REQUEST == "BadRequest"
TOO_LONG == "BadRequest: Message is too long"
WRONG == "Something went wrong. I informed the admin."
Errors == {HYPHENATION, TELEGRAM, FORBIDDEN, TOO_OLD, BAD_REQUEST, NoExc}

\* what the error came up for: an Update with a message, an Update with an
\* inline query, an Update with neither, and something that is no Update
Updates == {"message", "inline_query", "chosen_inline_result", "job"}
is_Update(update) == update # "job"
has_inline_query(update) == update = "inline_query"
has_effective_message(update) == update = "message"

\* isinstance(context.error, HyphenationError)
is_HyphenationError(exc) == exc = HYPHENATION

\* error.py lines 30-35: inline_query.answer(results=[], button=...)
HelpAnswer ==
    [call |-> "answer", to |-> "requester", text |-> "",
     button |-> "hyphenation_error"]
\* a text sent with reply_text or send_message
Sent(call, to, text) ==
    [call |-> call, to |-> to, text |-> text, button |-> "none"]

\* error.py lines 54-59: the errors the handler error returns for
ignored_but_hyphenation(exc) == exc \in {FORBIDDEN, TOO_OLD, NoExc}
ignored(exc) == is_HyphenationError(exc) \/ exc \in {FORBIDDEN, TOO_OLD, NoExc}

ErrFrame == UNCHANGED <<supVars, hdrVars, setVars, bodyVars, shVars,
                        ftVars, stVars, plVars, moreVars>>

\* an error is handed to the error handlers (setup.py lines 70-71)
process_error ==
    /\ er_pc = "idle"
    /\ er_update' \in Updates
    /\ er_exc' \in Errors
    /\ er_sent' = <<>>
    /\ er_log' = <<>>
    /\ er_raised' = FALSE
    /\ er_pc' = "hyphenation_error"
    /\ ErrFrame

\* error.py lines 19-38
hyphenation_error ==
    /\ er_pc = "hyphenation_error"
    /\ er_sent' =
        IF ~is_HyphenationError(er_exc) \/ ~is_Update(er_update)
        THEN er_sent
        ELSE IF has_inline_query(er_update)
        THEN Append(er_sent, HelpAnswer)
        ELSE IF has_effective_message(er_update)
        THEN Append(er_sent, Sent("reply_text", "requester", er_exc))
        ELSE er_sent
    /\ er_pc' = "error"
    /\ UNCHANGED <<er_update, er_exc, er_log, er_raised>>
    /\ ErrFrame

\* error.py lines 49-52: logger.error, before anything else
error_l52 ==
    /\ er_pc = "error"
    /\ er_log' = Append(er_log, [level |-> "ERROR", exc_info |-> er_exc])
    /\ er_pc' = "l54"
    /\ UNCHANGED <<er_update, er_exc, er_sent, er_raised>>
    /\ ErrFrame

\* error.py lines 54-59
error_l54 ==
    /\ er_pc = "l54"
    /\ er_pc' = IF ignored(er_exc) THEN "idle" ELSE "l62"
    /\ UNCHANGED <<er_update, er_exc, er_sent, er_log, er_raised>>
    /\ ErrFrame

\* error.py lines 61-64
error_l62 ==
    /\ er_pc = "l62"
    /\ er_sent' = IF is_Update(er_update) /\ has_effective_message(er_update)
                  THEN Append(er_sent, Sent("reply_text", "requester", WRONG))
                  ELSE er_sent
    /\ er_pc' = "l80"
    /\ UNCHANGED <<er_update, er_exc, er_log, er_raised>>
    /\ ErrFrame

\* error.py lines 66-80: the update is sent to the admin
error_l80 ==
    /\ er_pc = "l80"
    /\ er_sent' = Append(er_sent, Sent("send_message", "admin", "update"))
    /\ er_pc' = "l82"
    /\ UNCHANGED <<er_update, er_exc, er_log, er_raised>>
    /\ ErrFrame

\* error.py lines 81-85: the traceback is sent to the admin, or is refused
error_l82 ==
    /\ er_pc = "l82"
    /\ \E result \in {"ok", TOO_LONG, BAD_REQUEST} :
        /\ er_sent' = IF result = "ok"
                      THEN Append(er_sent, Sent("reply_html", "admin", "traceback"))
                      ELSE er_sent
        /\ er_pc' = IF result = TOO_LONG THEN "l90" ELSE "idle"
        /\ er_raised' = (result = BAD_REQUEST)
    /\ UNCHANGED <<er_update, er_exc, er_log>>
    /\ ErrFrame

\* error.py lines 86-90
error_l90 ==
    /\ er_pc = "l90"
    /\ er_sent' = Append(er_sent, Sent("send_message", "admin", "too long"))
    /\ er_pc' = "idle"
    /\ UNCHANGED <<er_update, er_exc, er_log, er_raised>>
    /\ ErrFrame

\* error.py lines 41-90
error ==
    \/ error_l52
    \/ error_l54
    \/ error_l62
    \/ error_l80
    \/ error_l82
    \/ error_l90

ErrInit ==
    /\ er_pc = "idle"
    /\ er_update = "job"
    /\ er_exc = NoExc
    /\ er_sent = <<>>
    /\ er_log = <<>>
    /\ er_raised = FALSE

(***************************************************************************)
(* The footer: build_sticker and build_footer of bot/twitter.py, and the   *)
(* set_timezone conversation of bot/settimezone.py, for one user.  The     *)
(* clock counts minutes; a timestamp is written as the local minute.       *)
(***************************************************************************)
Zones == {"Europe/Berlin", "UTC"}
\* twitter.py line 100: timezone: str = "Europe/Berlin"
DefaultZone == "Europe/Berlin"
\* inline.py line 65: the result id of a sticker in an answer of the bot
UUID4 == "uuid4"
\* what a chosen inline result or a message sent via the bot can carry while
\* the conversation waits: a timezone of the list, or a sticker of the bot
Chosen == Zones \cup {UUID4}
FtTexts == {"hi", "yo"}
Headers == {"header A", "header B"}
END == "END"
\* settimezone.py line 30: STATE = 42
STATE_42 == "STATE"

\* pytz.timezone(timezone): minutes ahead of UTC
utcoffset(timezone) == IF timezone = "Europe/Berlin" THEN 60 ELSE 0

\* twitter.py lines 113-114: now and date_string
date_string(clock, timezone) == clock + utcoffset(timezone)

\* twitter.py lines 100-124: the footer is drawn from dtm.datetime.now
build_footer(timezone) == date_string(now, timezone)

\* twitter.py lines 356-369: the three parts pasted one below the other.
\* build_footer is called with the event only, so with its default timezone
Pasted(header, text) ==
    [header |-> header, body |-> text, footer |-> build_footer(DefaultZone)]

FtFrame == UNCHANGED <<supVars, hdrVars, setVars, bodyVars, shVars,
                       errVars, stVars, plVars, moreVars>>

\* time passes
tick ==
    /\ now < MaxClock
    /\ now' = now + 1
    /\ UNCHANGED <<tzinfo, tz_conv, tz_chosen, made>>
    /\ FtFrame

\* settimezone.py lines 33-54: /set_timezone
start ==
    /\ tz_conv = END
    /\ tz_conv' = STATE_42
    /\ UNCHANGED <<now, tzinfo, tz_chosen, made>>
    /\ FtFrame

\* settimezone.py lines 90-113
handle_timezone(result_id) ==
    /\ tz_conv = STATE_42
    /\ tzinfo' = result_id
    /\ tz_chosen' = TRUE
    /\ tz_conv' = END
    /\ UNCHANGED <<now, made>>
    /\ FtFrame

\* twitter.py lines 346-369: a sticker is built for the user
build_sticker(text, header) ==
    /\ Len(made) < MaxMade
    /\ made' = Append(made, [text |-> text, header |-> header,
                             tzinfo |-> tzinfo, chosen |-> tz_chosen,
                             at |-> now, sticker |-> Pasted(header, text)])
    /\ UNCHANGED <<now, tzinfo, tz_conv, tz_chosen>>
    /\ FtFrame

FtInit ==
    /\ now = 0
    /\ tzinfo = DefaultZone
    /\ tz_conv = END
    /\ tz_chosen = FALSE
    /\ made = <<>>

(***************************************************************************)
(* The stored stickers of one user: toggle_store_stickers and              *)
(* sticker_message of bot/commands.py, handle_chosen_inline_result of      *)
(* bot/inline.py, and the two places that remove stored stickers.          *)
(* A sticker is named by a number; the key of temp_file_ids it is offered  *)
(* under is that number as well.                                           *)
(***************************************************************************)
StoreUser == "u1"
\* a result id that starts with "tweet"
TWEET == 0
Keys == 1..MaxSent

\* commands.py line 90: sticker_file_ids.clear()
kept(ids) == ids
cleared(ids) == {}

StFrame == UNCHANGED <<dpc, dUser, inline_query_thread, inline_query_event,
                       event_set, tasks, ntasks, profile, fallback_photo,
                       snapshot, header_file, gen, nchanges, setVars,
                       bodyVars, shVars, errVars, ftVars, plVars, moreVars>>

\* commands.py lines 79-96
toggle_store_stickers ==
    /\ IF store_stickers
       THEN /\ sticker_file_ids' = cleared(sticker_file_ids)
            /\ store_stickers' = FALSE
            /\ st_last' = "toggle: off"
       ELSE /\ store_stickers' = TRUE
            /\ st_last' = "toggle: on"
            /\ UNCHANGED sticker_file_ids
    /\ UNCHANGED <<temp_file_ids, sm_pc, sm_sticker, nsent, st_open>>
    /\ StFrame

\* commands.py lines 22-26: the sticker is built and sent as the reply
sticker_message_l25 ==
    /\ sm_pc = "idle"
    /\ nsent < MaxSent
    /\ nsent' = nsent + 1
    /\ sm_sticker' = nsent + 1
    /\ sm_pc' = "l27"
    /\ UNCHANGED <<store_stickers, sticker_file_ids, temp_file_ids, st_last,
                   st_open>>
    /\ StFrame

\* commands.py lines 27-29
sticker_message_l27 ==
    /\ sm_pc = "l27"
    /\ IF store_stickers
       THEN /\ sticker_file_ids' = sticker_file_ids \cup {sm_sticker}
            /\ st_last' = "message: stored"
       ELSE /\ st_last' = "message: not stored"
            /\ UNCHANGED sticker_file_ids
    /\ sm_pc' = "idle"
    /\ UNCHANGED <<store_stickers, temp_file_ids, sm_sticker, nsent, st_open>>
    /\ StFrame

sticker_message ==
    \/ sticker_message_l25
    \/ sticker_message_l27

\* inline.py lines 61-73: an inline_thread has sent a sticker, has written
\* it to temp_file_ids and has offered it in its answer
inline_thread_l66 ==
    /\ nsent < MaxSent
    /\ nsent' = nsent + 1
    /\ temp_file_ids' = [temp_file_ids EXCEPT ![StoreUser] = @ \cup {nsent + 1}]
    /\ st_open' = st_open \cup {nsent + 1}
    /\ UNCHANGED <<store_stickers, sticker_file_ids, sm_pc, sm_sticker, st_last>>
    /\ StFrame

\* inline.py lines 115-130, for a result the user has chosen: a stored
\* sticker ("tweet i") or a sticker offered under its key, chosen once
handle_chosen_inline_result(result_id) ==
    /\ result_id = TWEET \/ result_id \in st_open
    /\ st_open' = st_open \ {result_id}
    /\ IF result_id # TWEET
       THEN /\ LET cached == result_id \in temp_file_ids[StoreUser] IN
                IF cached /\ store_stickers
                THEN /\ sticker_file_ids' = sticker_file_ids \cup {result_id}
                     /\ st_last' = "chosen: stored"
                ELSE /\ st_last' = "chosen: not stored"
                     /\ UNCHANGED sticker_file_ids
            /\ temp_file_ids' = [temp_file_ids EXCEPT ![StoreUser] = {}]
       ELSE /\ st_last' = "chosen: tweet"
            /\ UNCHANGED <<sticker_file_ids, temp_file_ids>>
    /\ UNCHANGED <<store_stickers, sm_pc, sm_sticker, nsent>>
    /\ StFrame

\* deletesticker.py line 60: sticker_file_ids.pop(file_unique_id, None)
handle_sticker(sticker) ==
    /\ sticker_file_ids' = sticker_file_ids \ {sticker}
    /\ st_last' = "delete"
    /\ UNCHANGED <<store_stickers, temp_file_ids, sm_pc, sm_sticker, nsent,
                   st_open>>
    /\ StFrame

\* twitter.py lines 273-274: the profile changed, get_header clears
get_header_l274 ==
    /\ sticker_file_ids' = {}
    /\ st_last' = "drop"
    /\ UNCHANGED <<store_stickers, temp_file_ids, sm_pc, sm_sticker, nsent,
                   st_open>>
    /\ StFrame

StInit ==
    /\ store_stickers = TRUE
    /\ sm_pc = "idle"
    /\ sm_sticker = TWEET
    /\ nsent = 0
    /\ st_last = "none"
    /\ st_open = {}

(***************************************************************************)
(* One generation started by inline(), step by step: every poll of an      *)
(* Event (_check_event) and every call that leaves the process or writes   *)
(* the header file.  Positions are named by file and line: i for           *)
(* bot/inline.py, t for bot/twitter.py.  pl_issued lists the calls issued  *)
(* while the Event of the task was set.                                    *)
(***************************************************************************)
OwnEvent == 1

\* the Event the _check_event at a position is given: inline_thread has its
\* own; below get_sticker_photo_stream it is the one that call passes on
polled(at) ==
    IF at \in {"i53", "i59", "i71"} THEN OwnEvent ELSE caller_event("inline")

\* _check_event(event): twitter.py lines 47-50, inline.py lines 24-27
raises(event) == event # None /\ pl_set

PlFrame == UNCHANGED <<supVars, hdrVars, setVars, bodyVars, shVars,
                       errVars, ftVars, stVars, moreVars>>

\* inline.py lines 97-103: a new Event, not set, and a new Thread
inline_l97 ==
    /\ pl_pc \in {"idle", "done"}
    /\ pl_pc' = "i53"
    /\ pl_set' = FALSE
    /\ pl_issued' = <<>>
    /\ pl_photo' = FALSE
    /\ PlFrame

\* inline.py lines 93-94: the next query sets the Event of the alive thread
inline_l94 ==
    /\ pl_pc \notin {"idle", "done"}
    /\ ~pl_set
    /\ pl_set' = TRUE
    /\ UNCHANGED <<pl_pc, pl_issued, pl_photo>>
    /\ PlFrame

\* a _check_event
poll(at, next) ==
    /\ pl_pc = at
    /\ pl_pc' = IF raises(polled(at)) THEN "except" ELSE next
    /\ UNCHANGED <<pl_set, pl_issued, pl_photo>>
    /\ PlFrame

\* a call of the Bot API, a download or the write of the header file
call(at, name, next) ==
    /\ pl_pc = at
    /\ pl_issued' = IF pl_set THEN Append(pl_issued, name) ELSE pl_issued
    /\ \E ok \in BOOLEAN : pl_pc' = IF ok THEN next ELSE "except"
    /\ UNCHANGED <<pl_set, pl_photo>>
    /\ PlFrame

\* twitter.py lines 226-233: get_user_profile_photos and what it returns
get_header_l226 ==
    /\ pl_pc = "t226"
    /\ pl_issued' = IF pl_set THEN Append(pl_issued, "get_user_profile_photos")
                    ELSE pl_issued
    /\ \E ok \in BOOLEAN : pl_pc' = IF ok THEN "t240" ELSE "except"
    /\ pl_photo' \in BOOLEAN
    /\ UNCHANGED pl_set
    /\ PlFrame

\* twitter.py lines 241-259: the stored header is returned, or a picture is
\* to be fetched, or there is none to fetch
get_header_l241 ==
    /\ pl_pc = "t241"
    /\ \E hit \in BOOLEAN :
        pl_pc' = IF hit THEN "t357" ELSE IF pl_photo THEN "t261" ELSE "t195"
    /\ UNCHANGED <<pl_set, pl_issued, pl_photo>>
    /\ PlFrame

\* steps that call nothing outside: inline.py line 55 enters
\* get_sticker_photo_stream; twitter.py 357-369 builds body and footer and
\* pastes; inline.py lines 74-76
local(at, next) ==
    /\ pl_pc = at
    /\ pl_pc' = next
    /\ UNCHANGED <<pl_set, pl_issued, pl_photo>>
    /\ PlFrame

generation ==
    \/ poll("i53", "i55")
    \/ local("i55", "t225")
    \/ poll("t225", "t226")
    \/ get_header_l226
    \/ poll("t240", "t241")
    \/ get_header_l241
    \/ poll("t261", "t262")
    \/ call("t262", "get_file", "t264")
    \/ poll("t264", "t265")
    \/ call("t265", "download", "t267")
    \/ poll("t267", "t195")
    \/ poll("t195", "t197")
    \/ call("t197", "save", "t357")
    \/ local("t357", "i59")
    \/ poll("i59", "i61")
    \/ call("i61", "send_sticker", "i71")
    \/ poll("i71", "i73")
    \/ call("i73", "answer", "done")
    \/ local("except", "done")

PlInit ==
    /\ pl_pc = "idle"
    /\ pl_set = FALSE
    /\ pl_issued = <<>>
    /\ pl_photo = FALSE

(***************************************************************************)
(* One inline_thread after the other of a user who has stored stickers:    *)
(* what it reads at line 45, what get_header clears below line 55, and     *)
(* what it answers with at line 73.  The stickers get stored by            *)
(* sticker_message.                                                        *)
(***************************************************************************)
\* the other variables of the header cache and of the dispatcher
hdrOther == <<profile, fallback_photo, snapshot, header_file, gen, nchanges>>
AqFrame == UNCHANGED <<supVars, hdrOther, setVars, bodyVars, shVars, errVars,
                       ftVars, stVars, plVars, emVars>>

\* inline.py lines 44-53: file_ids = list(user_data.sticker_file_ids.values())
inline_thread_l45 ==
    /\ aq_pc = "idle"
    /\ aq_file_ids' = sticker_file_ids
    /\ aq_cleared' = {}
    /\ aq_results' = {}
    /\ aq_pc' = "l55"
    /\ UNCHANGED sticker_file_ids
    /\ AqFrame

\* inline.py lines 55-57, twitter.py lines 241-274: get_header finds the
\* profile changed and clears sticker_file_ids, or finds it unchanged; or
\* the generation fails
inline_thread_l55 ==
    /\ aq_pc = "l55"
    /\ \E found \in {"changed", "same", "failed"} :
        /\ sticker_file_ids' = IF found = "changed" THEN {} ELSE sticker_file_ids
        /\ aq_cleared' = IF found = "changed" THEN sticker_file_ids ELSE {}
        /\ aq_pc' = IF found = "failed" THEN "idle" ELSE "l73"
    /\ UNCHANGED <<aq_file_ids, aq_results>>
    /\ AqFrame

\* inline.py lines 59-73: the answer holds the new sticker and, as
\* "tweet i", the stickers of file_ids
inline_thread_l73 ==
    /\ aq_pc = "l73"
    /\ aq_results' = aq_file_ids
    /\ aq_pc' = "idle"
    /\ UNCHANGED <<sticker_file_ids, aq_file_ids, aq_cleared>>
    /\ AqFrame

AqInit ==
    /\ aq_pc = "idle"
    /\ aq_file_ids = {}
    /\ aq_cleared = {}
    /\ aq_results = {}

(***************************************************************************)
(* Empty inline queries: inline() lines 106-112, for one user, whose        *)
(* non-empty queries start threads as in Spec.  em_stored lists the stored  *)
(* stickers in the order they were stored (the order of the dict).          *)
(***************************************************************************)
NoAnswer == [results |-> <<>>, alive |-> FALSE]

\* inline.py line 110: reversed(file_ids)
in_order(file_ids) == file_ids
reversed(file_ids) ==
    [i \in 1..Len(file_ids) |-> file_ids[Len(file_ids) + 1 - i]]

\* inline() with an empty query, lines 87-91 and 106-112
inline_empty(u) ==
    /\ dpc = "idle"
    /\ em_n < MaxEmpty
    /\ em_n' = em_n + 1
    /\ em_answer' = [results |-> reversed(em_stored),
                     alive |-> is_alive(inline_query_thread[u])]
    /\ UNCHANGED <<supVars, hdrVars, setVars, bodyVars, shVars, errVars,
                   ftVars, stVars, plVars, aqVars, em_stored>>

\* commands.py line 29, inline.py line 129: one more sticker is stored
store_sticker ==
    /\ Len(em_stored) < MaxStored
    /\ em_stored' = Append(em_stored, Len(em_stored) + 1)
    /\ sticker_file_ids' = sticker_file_ids \cup {Len(em_stored) + 1}
    /\ UNCHANGED <<supVars, hdrOther, setVars, bodyVars, shVars, errVars,
                   ftVars, stVars, plVars, aqVars, em_answer, em_n>>

EmInit ==
    /\ em_stored = <<>>
    /\ em_answer = NoAnswer
    /\ em_n = 0

BodyInit ==
    /\ body_text = <<4>>
    /\ fill_exc = "ok"
    /\ body = NoBody

HdrInit ==
    /\ profile = [name |-> "A", username |-> "none", photo |-> "none"]
    /\ fallback_photo = "none"
    /\ snapshot = NoSnapshot
    /\ header_file = Absent
    /\ sticker_file_ids = {}
    /\ gen = [c \in Callers |-> Idle]
    /\ nchanges = 0

Init ==
    /\ dpc = "idle"
    /\ dUser = "u1"
    /\ inline_query_thread = [u \in Users |-> None]
    /\ inline_query_event = [u \in Users |-> None]
    /\ event_set = [t \in TaskIds |-> FALSE]
    /\ tasks = [t \in TaskIds |-> Unborn]
    /\ temp_file_ids = [u \in Users |-> {}]
    /\ ntasks = 0
    /\ HdrInit
    /\ SetInit
    /\ BodyInit
    /\ ShInit
    /\ ErrInit
    /\ FtInit
    /\ StInit
    /\ PlInit
    /\ AqInit
    /\ EmInit

Next ==
    \/ \E u \in Users : inline(u)
    \/ \E u \in Users : inline_join(u)
    \/ \E t \in TaskIds : inline_thread(t)

Spec == Init /\ [][Next]_vars

\* every call a thread makes returns in the end, so a thread that can take
\* its next step takes it, and so does inline() once join() can return
SpecLive ==
    /\ Init /\ [][Next]_vars
    /\ \A t \in TaskIds : WF_vars(inline_thread(t))
    /\ \A u \in Users : WF_vars(inline_join(u))

NextHeader ==
    \/ \E c \in Callers : hdr_begin(c)
    \/ \E c \in Callers : get_header(c)
    \/ \E c \in Callers : build_header(c)
    \/ \E c \in Callers : hdr_store(c)
    \/ change_profile
    \/ update_fallback_photo
    \/ lose_header

SpecHeader == Init /\ [][NextHeader]_vars

(***************************************************************************)
(* The older revision of the header cache, twitter.py at the top of the    *)
(* source tree, used by the handlers of bot.py.  Those handlers (message,  *)
(* inline) call get_sticker_id on the dispatcher, one at a time, so there  *)
(* is one caller; the stored user is context.bot_data[user.id]; there is   *)
(* no fallback photo and there are no stored stickers.                     *)
(***************************************************************************)
\* an exception of Image.open(headers/<id>.png) leaves get_header
RaiseLoad(c) == Step(c, [Idle EXCEPT !.ret = "load_error"])

\* twitter.py:222  except FileNotFoundError
caught(file) == file = Absent

\* twitter.py:213-233: compare with the stored user; on a match return the
\* stored file if it opens, go on when it is missing, and let any other
\* exception of Image.open through; then fetch the picture
old_l213(c) ==
    /\ gen[c].pc = "l241"
    /\ IF matches(c) /\ Loadable(header_file)
       THEN Step(c, [gen[c] EXCEPT !.pc = "returned", !.ret = "hit",
                                   !.img = header_file])
       ELSE IF matches(c) /\ ~caught(header_file)
       THEN RaiseLoad(c)
       ELSE \E ok \in BOOLEAN :
              IF gen[c].photo # "none" /\ ~ok
              THEN Raise(c)
              ELSE Step(c, [gen[c] EXCEPT !.pc = "l272"])
    /\ UNCHANGED <<profile, fallback_photo, snapshot, header_file,
                   sticker_file_ids, nchanges>>
    /\ HdrFrame

\* bot.py:190-192, 208-214: the handler goes on after get_sticker_id
old_done(c) ==
    /\ gen[c].pc = "returned"
    /\ Step(c, Idle)
    /\ UNCHANGED <<profile, fallback_photo, snapshot, header_file,
                   sticker_file_ids, nchanges>>
    /\ HdrFrame

\* twitter.py:188-247 get_header, 134-185 build_header
old_get_header(c) ==
    \/ hdr_begin(c)
    \/ hdr_l226(c)
    \/ old_l213(c)
    \/ hdr_l272(c)
    \/ build_header(c)
    \/ old_done(c)

NextLegacy ==
    \/ old_get_header("message")
    \/ change_profile
    \/ lose_header

SpecLegacy == Init /\ [][NextLegacy]_vars

(***************************************************************************)
(* The sticker set with the requests handled one at a time (SpecSet), and  *)
(* with the requests of different users published by parallel tasks        *)
(* (SpecSetPar).                                                           *)
(***************************************************************************)
publish(p) ==
    \/ get_sticker_set(p)
    \/ clean_sticker_set(p)
    \/ get_sticker_id(p)
    \/ reply(p)

NextSet ==
    \/ \E p \in Publishers : publish_begin(p)
    \/ \E p \in Publishers : publish(p)
    \/ removed_elsewhere

SpecSet == Init /\ [][NextSet]_vars

NextSetPar ==
    \/ \E p \in Publishers : publish_begin_task(p)
    \/ \E p \in Publishers : publish(p)
    \/ removed_elsewhere

SpecSetPar == Init /\ [][NextSetPar]_vars

(***************************************************************************)
(* build_body applied to one text after the other.                         *)
(***************************************************************************)
NextBody ==
    \/ build_sticker_l357
    \/ next_text

SpecBody == Init /\ [][NextBody]_vars

(***************************************************************************)
(* shorten_text, called again and again; a call that is running goes on.   *)
(***************************************************************************)
NextShorten == shorten_text

SpecShorten == Init /\ [][NextShorten]_vars /\ WF_vars(shorten_text_l93)

(***************************************************************************)
(* Errors handed to the error handlers, one after the other.               *)
(***************************************************************************)
NextError ==
    \/ process_error
    \/ hyphenation_error
    \/ error

SpecError == Init /\ [][NextError]_vars

(***************************************************************************)
(* Stickers built for one user while time passes and the user sets the     *)
(* timezone.                                                               *)
(***************************************************************************)
NextFooter ==
    \/ tick
    \/ start
    \/ \E result_id \in Chosen : handle_timezone(result_id)
    \/ \E text \in FtTexts, header \in Headers : build_sticker(text, header)

SpecFooter == Init /\ [][NextFooter]_vars

(***************************************************************************)
(* The handlers that touch the stored stickers of one user.                *)
(***************************************************************************)
NextStore ==
    \/ toggle_store_stickers
    \/ sticker_message
    \/ inline_thread_l66
    \/ \E result_id \in Keys \cup {TWEET} : handle_chosen_inline_result(result_id)
    \/ \E sticker \in Keys : handle_sticker(sticker)
    \/ get_header_l274

SpecStore == Init /\ [][NextStore]_vars

(***************************************************************************)
(* One generation after the other, each with its own Event, which the      *)
(* next inline query sets at any time.                                     *)
(***************************************************************************)
NextPoll ==
    \/ inline_l97
    \/ inline_l94
    \/ generation

SpecPoll == Init /\ [][NextPoll]_vars

(***************************************************************************)
(* Inline queries of a user whose text messages get their stickers stored. *)
(***************************************************************************)
NextStale ==
    \/ sticker_message
    \/ inline_thread_l45
    \/ inline_thread_l55
    \/ inline_thread_l73

SpecStale == Init /\ [][NextStale]_vars

(***************************************************************************)
(* The empty and the non-empty inline queries of one user.                 *)
(***************************************************************************)
NextEmpty ==
    \/ inline(StoreUser)
    \/ inline_join(StoreUser)
    \/ \E t \in TaskIds : inline_thread(t)
    \/ inline_empty(StoreUser)
    \/ store_sticker

SpecEmpty == Init /\ [][NextEmpty]_vars

(***************************************************************************)
(* Claims about the supervisor (checked under Spec).                       *)
(***************************************************************************)
TasksOf(u) == {t \in TaskIds : tasks[t].owner = u}

\* C1: after any sequence of non-empty inline queries each user has at most
\* one alive inline_thread at any time.
C1_OneAliveThreadPerUser ==
    \A u \in Users : Cardinality({t \in TasksOf(u) : is_alive(t)}) <= 1

\* a second thread of a user is running after the first one was set and joined
C1_Witness ==
    \E u \in Users : \E t1, t2 \in TasksOf(u) :
        /\ t1 < t2
        /\ event_set[t1]
        /\ tasks[t1].pc = "done"
        /\ tasks[t2].pc = "l55"

\* C2: a task whose Event was set by a second query of its user before it had
\* passed its first checkpoint (line 53) delivers nothing, neither an answer
\* nor an error dispatch; results of that user come from other tasks only.
C2_EarlyCancelDeliversNothing ==
    \A t \in TaskIds :
        tasks[t].early =>
            /\ tasks[t].answers = 0
            /\ tasks[t].errors = 0
            /\ tasks[t].pc \in {"l45", "l53", "except", "done"}

\* the first task ended silently and the second task's answer was delivered
C2_Witness ==
    \E t1, t2 \in TaskIds :
        /\ t1 < t2
        /\ tasks[t1].owner = tasks[t2].owner
        /\ tasks[t1].early
        /\ tasks[t1].pc = "done"
        /\ tasks[t2].answers = 1

C4_NoAnswerAfterSubmit ==
    \A t \in TaskIds : ~tasks[t].lateAnswer

\* C4 as the code has it: an answer is delivered only by the task most
\* recently started for its user; once inline() has started the newer task no
\* older task answers (an older task that had passed its last checkpoint may
\* still answer while inline() waits in join()).
C4_AnswerOnlyFromLatestStarted ==
    [][\A t \in TaskIds :
        tasks'[t].answers > tasks[t].answers
            => inline_query_thread[tasks[t].owner] = t]_vars

\* a newer task answered after an older task of the user had been superseded
C4_Witness ==
    \E t1, t2 \in TaskIds :
        /\ t1 < t2
        /\ tasks[t1].owner = tasks[t2].owner
        /\ event_set[t1]
        /\ tasks[t1].answers = 0
        /\ tasks[t2].answers = 1
        /\ ~event_set[t2]

\* C5: a task whose checkpoint found the Event set aborts there: no later
\* external call or state write, no answer, nothing handed to dispatch_error.
C5_AbortIsSilent ==
    \A t \in TaskIds :
        tasks[t].abortedAt >= 0 =>
            /\ tasks[t].effects = tasks[t].abortedAt
            /\ tasks[t].answers = 0
            /\ tasks[t].errors = 0
            /\ tasks[t].pc \in {"except", "done"}
            /\ tasks[t].exc = TERMINATED

\* a task aborted at a later checkpoint, after send_sticker, and has ended
C5_Witness ==
    \E t \in TaskIds :
        /\ tasks[t].abortedAt = 3
        /\ tasks[t].pc = "done"

\* C6: a task delivers at most one terminal result, an answer or an error
\* dispatch, never both; a cancelled task delivers neither.
C6_AtMostOneResult ==
    \A t \in TaskIds :
        /\ tasks[t].answers + tasks[t].errors <= 1
        /\ tasks[t].exc = TERMINATED => tasks[t].answers + tasks[t].errors = 0

\* one task has answered, another has failed into dispatch_error, a third
\* was cancelled
C6_Witness ==
    \E t1, t2, t3 \in TaskIds :
        /\ tasks[t1].answers = 1 /\ tasks[t1].pc = "done"
        /\ tasks[t2].errors = 1 /\ tasks[t2].pc = "done"
        /\ tasks[t3].exc = TERMINATED /\ tasks[t3].pc = "done"

\* C7: a submit for one user never sets another user's Event: an Event is
\* set only by inline() handling a query of the task's owner, and a task is
\* cancelled only after that; tasks of different users run side by side.
C7_NoCrossUserCancellation ==
    /\ [](\A t \in TaskIds : tasks[t].exc = TERMINATED => event_set[t])
    /\ [][\A t \in TaskIds :
            (event_set'[t] /\ ~event_set[t])
                => /\ dpc' = "join"
                   /\ dUser' = tasks[t].owner
                   /\ \A o \in TaskIds :
                        tasks[o].owner # tasks[t].owner => tasks'[o] = tasks[o]]_vars

\* two users' tasks overlapped in time: the later one has answered, the
\* earlier one is about to, and neither Event was set
C7_Witness ==
    \E t1, t2 \in TaskIds :
        /\ t1 < t2
        /\ tasks[t1].owner # tasks[t2].owner
        /\ tasks[t2].answers = 1
        /\ tasks[t1].pc = "l73"
        /\ ~event_set[t1] /\ ~event_set[t2]
        /\ \E t3 \in TaskIds : tasks[t3].owner = tasks[t2].owner /\ event_set[t3]

(***************************************************************************)
(* Claims about the header cache (checked under SpecHeader).               *)
(***************************************************************************)
\* generation c takes a step
Steps(c) == gen'[c] # gen[c]
\* no generation is between the write of the snapshot and the end of
\* build_header
Quiet == \A c \in Callers : gen[c].pc \in {"idle", "l226", "l241", "returned"}

\* C8: whenever get_header returns the stored header file (the snapshot
\* matched), that file was rendered from the name, handle and photo
\* fingerprint stored as the user's snapshot.
C8_StoredHeaderIsOfSnapshot ==
    [][\A c \in Callers :
        (Steps(c) /\ gen'[c].ret = "hit") => gen'[c].img = RenderOf(snapshot)]_vars

\* C9: a call whose observed profile equals the stored snapshot, with a
\* loadable stored header, returns that header and leaves the snapshot, the
\* header file and sticker_file_ids as they are.
C9_HitLeavesCacheUnchanged ==
    [][\A c \in Callers :
        (/\ Steps(c)
         /\ gen[c].pc = "l241"
         /\ snapshot = Observed(c)
         /\ header_file \notin {Absent, Corrupt})
            => /\ gen'[c].pc = "returned"
               /\ gen'[c].ret = "hit"
               /\ gen'[c].img = header_file
               /\ UNCHANGED <<snapshot, header_file, sticker_file_ids>>]_vars

\* a call returned the stored header while stickers were stored
C9_Witness ==
    \E c \in Callers :
        /\ gen[c].ret = "hit"
        /\ gen[c].img = header_file
        /\ snapshot = Observed(c)
        /\ sticker_file_ids # {}

\* C10: a change of name, username or photo fingerprint makes the next
\* generation rebuild the header, replace the snapshot and clear
\* sticker_file_ids, once for that change: the snapshot is replaced and the
\* stickers are cleared by the call that found the difference, a call clears
\* only while the stored snapshot differs from its profile, and once the
\* calls are through the header on file is the one of the stored snapshot.
C10_ChangeRebuildsAndClearsOnce ==
    /\ [](Quiet /\ Loadable(header_file) => header_file = RenderOf(snapshot))
    /\ [][\A c \in Callers :
            (Steps(c) /\ gen[c].pc = "l272")
                => /\ snapshot' = Observed(c)
                   /\ gen[c].drop => /\ sticker_file_ids' = {}
                                     /\ snapshot # Observed(c)]_vars

C12_LoadFailureNeverSurfaces ==
    \A c \in Callers : gen[c].ret # "load_error"

\* a generation is inside get_header / build_header
Inside(c) == gen[c].pc \in {"l226", "l241", "l272", "l176", "l184", "l197"}

\* C13: the executions that read or write one user's header cache never
\* overlap: the inline generation and the text-message generation of the
\* user are never inside get_header / build_header together.
C13_HeaderCacheNeverShared ==
    ~(Inside("inline") /\ Inside("message"))


(***************************************************************************)
(* Claims about the sticker set (checked under SpecSet and SpecSetPar).    *)
(***************************************************************************)
\* request p takes a step
Acts(p) == pub'[p] # pub[p]
\* every request so far went through get_sticker_id and the cleanup after it
\* without a failing call, and none is under way
CyclesDone ==
    /\ ~faults
    /\ npublished >= 1
    /\ \A p \in Publishers : pub[p].pc = "idle"

\* C14: after one or more publish-and-cleanup cycles run one after the
\* other without a failure, the set lists exactly one sticker.
C14_OneStickerAfterCycles ==
    CyclesDone => Len(stickers) = 1

\* two cycles are through
C14_Witness ==
    CyclesDone /\ npublished >= 2 /\ Len(stickers) = 1

\* C15 as stated: the sticker that remains after a cycle is the one
\* published last.
C15_NewestRemains ==
    CyclesDone => stickers = <<npublished>>

\* C15 as the code has it: the sticker that remains after a cycle is the
\* first of the set, the logo it was created with, and every published
\* sticker, the newest included, has been requested for removal.
C15_FirstRemains ==
    CyclesDone => /\ stickers = <<Seed>>
                  /\ \A i \in 1..npublished : i \in removal

\* after a cycle the newest sticker has been requested for removal
C15_Witness ==
    CyclesDone /\ npublished \in removal /\ Seed \in Range(stickers)

\* C16: in clean_sticker_set a delete answered Stickerset_not_modified
\* counts as done, and the loop goes on with the next sticker (or the
\* function returns after the last); a delete that fails otherwise ends the
\* request with that error.
C16_AbsentStickerIsTolerated ==
    [][\A p \in Publishers :
        (Acts(p) /\ pub[p].pc = "delete") =>
            /\ pub'[p].exc = NOT_MODIFIED =>
                 /\ faults' = faults
                 /\ IF Len(pub[p].todo) > 1
                    THEN /\ pub'[p].pc = "delete"
                         /\ pub'[p].todo = Tail(pub[p].todo)
                    ELSE pub'[p].pc = (IF pub[p].stage = "clean" THEN "build"
                                                                 ELSE "idle")
            /\ pub'[p].exc = TIMEOUT =>
                 /\ pub'[p].pc = "idle"
                 /\ faults'
                 /\ stickers' = stickers]_vars

\* a delete was answered Stickerset_not_modified and the loop is at the next
\* sticker
C16_Witness ==
    \E p \in Publishers :
        /\ pub[p].pc = "delete"
        /\ pub[p].exc = NOT_MODIFIED
        /\ ~faults

\* C17: get_sticker_set creates the set only after a lookup answered that
\* the set does not exist, and then looks it up again; an existing set is
\* returned without creation; a lookup that fails otherwise ends the request
\* and creates nothing.
C17_CreatesOnlyWhenMissing ==
    [][\A p \in Publishers :
        Acts(p) =>
            /\ set_exists' # set_exists =>
                 /\ pub[p].pc = "create"
                 /\ pub[p].exc = INVALID
                 /\ stickers' = <<Seed>>
                 /\ pub'[p].pc = "lookup2"
            /\ pub'[p].pc = "create" =>
                 /\ pub[p].pc = "lookup"
                 /\ ~set_exists
            /\ (pub[p].pc = "lookup" /\ set_exists) =>
                 /\ pub'[p].pc # "create"
                 /\ UNCHANGED <<set_exists, stickers>>
            /\ (pub[p].pc = "lookup" /\ pub'[p].exc = TIMEOUT) =>
                 /\ pub'[p].pc = "idle"
                 /\ faults'
                 /\ UNCHANGED <<set_exists, stickers>>]_vars

\* the set has just been created after a failed lookup
C17_Witness ==
    \E p \in Publishers :
        /\ pub[p].pc = "lookup2"
        /\ set_exists
        /\ stickers = <<Seed>>

\* C18: one request at a time works on the sticker set, and the id
\* get_sticker_id returns is the sticker this call added, still in the set.
C18_ReturnsOwnSticker ==
    /\ Cardinality({p \in Publishers : pub[p].pc # "idle"}) <= 1
    /\ \A p \in Publishers :
        pub[p].pc = "reply" => /\ pub[p].ret = pub[p].mine
                               /\ pub[p].ret \in Range(stickers)

(***************************************************************************)
(* Claims about build_body (checked under SpecBody).                       *)
(***************************************************************************)
RECURSIVE Sum(_)
Sum(seq) == IF seq = <<>> THEN 0 ELSE seq[1] + Sum(Tail(seq))
Breaks(text) == Cardinality({i \in 1..Len(text) : text[i] = NL})
\* the text goes to fill: it has a line break, or is too wide in both fonts
Wraps(text) ==
    \/ has_newline(text)
    \/ GlyphSmall * chars(text) > max_pixels_per_line

\* C19: the layout is chosen in strict order: without a line break and
\* within 450 px in the large font, one line in the large font; else without
\* a line break and within 450 px in the small font, one line in the small
\* font; else wrapped at 26 characters; a text with a line break is always
\* wrapped, paragraph by paragraph, the paragraphs rejoined with line breaks.
C19_LayoutPriority ==
    (body # NoBody /\ body.exc = "none") =>
        LET text == body_text IN
        /\ (~has_newline(text) /\ GlyphBig * chars(text) <= max_pixels_per_line)
                => body.layout = "big" /\ body.lines = <<chars(text)>>
        /\ (/\ ~has_newline(text)
            /\ GlyphBig * chars(text) > max_pixels_per_line
            /\ GlyphSmall * chars(text) <= max_pixels_per_line)
                => body.layout = "small" /\ body.lines = <<chars(text)>>
        /\ (~has_newline(text) /\ GlyphSmall * chars(text) > max_pixels_per_line)
                => /\ body.layout = "multi"
                   /\ \A i \in 1..Len(body.lines) :
                        body.lines[i] <= max_chars_per_line
                   /\ Sum(body.lines) + Len(body.lines) - 1 = chars(text)
        /\ has_newline(text)
                => /\ body.layout = "multi"
                   /\ \A i \in 1..Len(body.lines) :
                        body.lines[i] <= max_chars_per_line
                   /\ Len(body.lines) >= Breaks(text) + 1
                   /\ Len(split(text)) = Breaks(text) + 1
                   /\ body.lines = join(split(text))

\* a text exactly 450 px wide in the large font was set on one line in the
\* large font
C19_Witness ==
    /\ body.layout = "big"
    /\ getsize(GlyphBig, body_text) = max_pixels_per_line

\* C20: when fill fails on a text that is wrapped, build_body raises
\* HyphenationError and nothing else; a text set on a single line never
\* raises HyphenationError.
C20_WrapFailureIsHyphenationError ==
    body # NoBody =>
        /\ (Wraps(body_text) /\ fill_exc # "ok") => body.exc = HYPHENATION
        /\ body.exc # "none" => (body.exc = HYPHENATION /\ Wraps(body_text))
        /\ ~Wraps(body_text) => body.exc = "none"

\* fill failed on a text without a line break that is too wide in both fonts
C20_Witness ==
    /\ body.exc = HYPHENATION
    /\ ~has_newline(body_text)
    /\ fill_exc = "ValueError"

(***************************************************************************)
(* Claims about shorten_text (checked under SpecShorten).                  *)
(***************************************************************************)
\* the text after i rounds of the loop
Shortened(text, i) == drop_last(text, i) \o ELLIPSIS

\* C21: every call of shorten_text returns: the loop reaches a text that is
\* within max_width.
C21_ShortenTerminates ==
    (sh_pc = "while") ~> (sh_pc = "return")

\* C22: shorten_text returns the text itself when it is within max_width,
\* and else the text without its last i characters and with "..." added,
\* for the smallest i >= 1 that brings it within max_width; what it returns
\* is never wider than max_width.
C22_ShortestEllipsis ==
    sh_pc = "return" =>
        /\ text_width(sh_short) <= sh_max
        /\ IF text_width(sh_text) <= sh_max
           THEN sh_short = sh_text
           ELSE /\ sh_i >= 1
                /\ sh_short = Shortened(sh_text, sh_i)
                /\ \A j \in 1..(sh_i - 1) :
                        text_width(Shortened(sh_text, j)) > sh_max

\* a text was cut by two characters
C22_Witness ==
    /\ sh_pc = "return"
    /\ sh_i = 2
    /\ Len(sh_short) = Len(sh_text) + 1

\* C23: shorten_text given a text it has returned before, with the same
\* max_width, returns that text as it is.
C23_ShortenIdempotent ==
    (sh_pc = "return" /\ sh_first # NoText) => sh_short = sh_text

\* a text that was cut is given to shorten_text again and comes back
C23_Witness ==
    /\ sh_pc = "return"
    /\ sh_first # NoText
    /\ sh_first # sh_text
    /\ sh_short = sh_text

(***************************************************************************)
(* Claims about the error handlers (checked under SpecError).              *)
(***************************************************************************)
\* C24: when a generation has failed with HyphenationError, for a text
\* message or for an inline query, hyphenation_error informs the requester
\* (the message is replied to with the text of the error, the inline query
\* is answered with no results and the help button), and error sends
\* neither the "Something went wrong" reply nor anything to the admin.
C24_HyphenationErrorInformsRequester ==
    (is_HyphenationError(er_exc) /\ er_update \in {"message", "inline_query"})
    => /\ er_pc \in {"hyphenation_error", "error", "l54", "idle"}
       /\ er_sent =
            IF er_pc = "hyphenation_error" THEN <<>>
            ELSE IF er_update = "inline_query" THEN <<HelpAnswer>>
            ELSE <<Sent("reply_text", "requester", HYPHENATION)>>

\* both handlers are through with the HyphenationError of an inline query
C24_Witness ==
    /\ er_pc = "idle"
    /\ er_exc = HYPHENATION
    /\ er_update = "inline_query"
    /\ er_sent = <<HelpAnswer>>
    /\ er_log # <<>>

\* C25: handling a HyphenationError leaves no error-level log record in the
\* error handlers.
C25_HyphenationNeverLogged ==
    is_HyphenationError(er_exc) => er_log = <<>>

C27_SameInputsSameSticker ==
    \A i, j \in 1..Len(made) :
        (/\ made[i].text = made[j].text
         /\ made[i].header = made[j].header
         /\ made[i].tzinfo = made[j].tzinfo)
        => made[i].sticker = made[j].sticker

\* C28: once the user has set a timezone through the set_timezone
\* conversation, the footer of the user's stickers shows the time in that
\* timezone.
C28_FooterInChosenTimezone ==
    \A i \in 1..Len(made) :
        (made[i].chosen /\ made[i].tzinfo \in Zones) =>
            made[i].sticker.footer = date_string(made[i].at, made[i].tzinfo)

(***************************************************************************)
(* Claims about the stored stickers (checked under SpecStore).             *)
(***************************************************************************)
\* C29: a user whose store_stickers is off has no stored stickers.
C29_OffMeansNothingStored ==
    ~store_stickers => sticker_file_ids = {}

\* storing is off, an earlier sticker had been sent, and sticker_message
\* has just left the sticker it sent unstored
C29_Witness ==
    /\ ~store_stickers
    /\ st_last = "message: not stored"
    /\ nsent >= 2

(***************************************************************************)
(* Claims about the polls of a generation (checked under SpecPoll).        *)
(***************************************************************************)
\* C30: every external call and the write of the header file comes right
\* after a poll of the task's own Event, so once the Event is set the task
\* issues at most one more of them.
C30_AtMostOneCallAfterSet ==
    Len(pl_issued) <= 1

(***************************************************************************)
(* Claims about the dispatcher and the threads (checked under Spec and,    *)
(* for what has to happen in the end, under SpecLive).                     *)
(***************************************************************************)
\* C31: a submit for one user never waits for the task of another user: while
\* the teardown of a task of user a is going on, inline() for any other user
\* b can run.
C31_SubmitNeverWaitsOnOtherUser ==
    \A a, b \in Users :
        (a # b /\ dUser = a /\ dpc = "join" /\ ntasks < MaxTasks)
        => ENABLED inline(b)

\* a thread has ended in one of the three ways
Answered(t) == tasks[t].answers = 1 /\ tasks[t].errors = 0
Dispatched(t) == tasks[t].errors = 1 /\ tasks[t].exc \notin {NoExc, TERMINATED}
Cancelled(t) == tasks[t].exc = TERMINATED /\ tasks[t].answers + tasks[t].errors = 0
Ended(t) ==
    tasks[t].pc = "done" /\ (Answered(t) \/ Dispatched(t) \/ Cancelled(t))

\* C32: if every external call returns in the end, every started thread
\* ends (answered, failed and dispatched, or cancelled), every call of
\* inline() returns, and once no more queries arrive the users are idle.
C32_EverythingEnds ==
    /\ \A t \in TaskIds : (tasks[t].pc # "unborn") ~> Ended(t)
    /\ (dpc = "join") ~> (dpc = "idle")
    /\ <>[](dpc = "idle" /\ \A t \in TaskIds : ~is_alive(t))

\* a thread was cancelled, inline() came back from join(), the thread it
\* started has answered, and nothing is running
C32_Witness ==
    /\ dpc = "idle"
    /\ \A t \in TaskIds : ~is_alive(t)
    /\ \E t1, t2 \in TaskIds :
        /\ tasks[t1].owner = tasks[t2].owner
        /\ tasks[t1].pc = "done" /\ Cancelled(t1)
        /\ tasks[t2].pc = "done" /\ Answered(t2)

(***************************************************************************)
(* Claims about the sticker set under parallel requests (SpecSetPar).      *)
(***************************************************************************)
\* C33: once the sticker set exists it is never empty: whatever publishes
\* and cleanups have run, no cleanup has asked for the removal of the first
\* sticker, and the set still starts with it.
C33_SetNeverEmptied ==
    set_exists =>
        /\ Len(stickers) >= 1
        /\ Head(stickers) = Seed
        /\ Seed \notin removal

\* stickers were published and removed again and the first one is left
C33_Witness ==
    /\ set_exists
    /\ stickers = <<Seed>>
    /\ Cardinality(removal) >= 2

(***************************************************************************)
(* Claims about what a task that ends early leaves behind.                 *)
(***************************************************************************)
\* C35 (checked under Spec): a thread that ends cancelled has sent nothing
\* to the sticker chat and has left no entry in temp_file_ids.
C35_CancelledLeavesNothing ==
    \A t \in TaskIds :
        tasks[t].exc = TERMINATED =>
            /\ t \notin temp_file_ids[tasks[t].owner]
            /\ tasks[t].abortedAt <= 1

\* C36 (checked under SpecHeader): when get_header raises at the lookup of
\* the profile photos or while it fetches and opens the picture, the stored
\* profile, the header file and sticker_file_ids are as they were.
C36_EarlyFailureChangesNothing ==
    [][\A c \in Callers :
          (gen[c].pc \in {"l226", "l241"} /\ gen'[c].pc = "idle")
          => UNCHANGED <<snapshot, header_file, sticker_file_ids>>]_vars

\* a generation is about to fetch the picture of a changed profile, with a
\* header and stickers stored for the old one
C36_Witness ==
    \E c \in Callers :
        /\ gen[c].pc = "l241"
        /\ gen[c].photo # "none"
        /\ ~matches(c)
        /\ Loadable(header_file)
        /\ sticker_file_ids # {}

(***************************************************************************)
(* Claims about the answers to inline queries.                             *)
(***************************************************************************)
\* C34 (checked under SpecStale): when get_header clears sticker_file_ids
\* while an inline query is served, the answer to that query offers none of
\* the stickers that were cleared.
C34_AnswerOffersNoClearedSticker ==
    aq_results \cap aq_cleared = {}

\* C38 (checked under SpecEmpty): an empty inline query starts no thread and
\* leaves the thread in flight, its Event, temp_file_ids and
\* sticker_file_ids as they are; its answer lists the stored stickers, the
\* one stored last first.
C38_EmptyQueryOnlyAnswers ==
    [][em_n' # em_n =>
        /\ UNCHANGED <<tasks, ntasks, event_set, inline_query_thread,
                       inline_query_event, temp_file_ids, sticker_file_ids>>
        /\ Len(em_answer'.results) = Len(em_stored)
        /\ \A i \in 1..Len(em_stored) :
              em_answer'.results[i] = em_stored[Len(em_stored) + 1 - i]]_vars

\* an empty query was answered with two stored stickers while a thread of
\* the user was running
C38_Witness ==
    /\ em_n >= 1
    /\ em_answer.alive
    /\ em_answer.results = <<2, 1>>

\* C37 (checked under SpecStore): while store_stickers is on, a sticker
\* offered in an answer is recorded in sticker_file_ids once the user's
\* choice of it is handled, whatever was offered and chosen in between.
C37_ChosenStickerIsStored ==
    st_last = "chosen: not stored" => ~store_stickers

(***************************************************************************)
(* Claims about the timezone (checked under SpecFooter).                   *)
(***************************************************************************)
\* C39: after any run of the set_timezone conversation user_data.tzinfo is
\* the name of a timezone pytz knows.
C39_TzinfoIsSupported ==
    tzinfo \in Zones

====
